---------------------------- MODULE Spec2Model ----------------------------
(***************************************************************************)
(* Model of src/demo/lmcache_mock_api.py: the LMCache mock API server.     *)
(*                                                                         *)
(* The program's state is four module-level lists (invalidation_log,       *)
(* cache_events, test_results, backend_comparisons).  Every endpoint is an *)
(* `async def` handler; one action per handler models a whole request.     *)
(*                                                                         *)
(* Conventions                                                             *)
(*  - Optional[T] is a sequence: None is << >>, a present value v is <<v>>.*)
(*  - datetime.now() is not modelled as a wall clock: the event_id and     *)
(*    timestamp of a record are the ordinal of the call that made it, so   *)
(*    that records of different calls differ as they do in the program at  *)
(*    human request rates.                                                 *)
(*  - Money is counted in micro-dollars (1e-6 $), prices in cents per      *)
(*    million tokens; token counts are multiples of 100, which makes       *)
(*    (input_tokens / 1_000_000) * price exact in micro-dollars.           *)
(*  - The draws of `random` are inputs: a call picks one of a few streams  *)
(*    and the i-th draw of the call is a function of the stream and i.     *)
(*  - Variables named *_calls, appended_events and savings_seen are        *)
(*    history variables: they record what was requested, never read by a   *)
(*    handler.                                                             *)
(***************************************************************************)
EXTENDS Integers, Sequences, FiniteSets, TLC

VARIABLES
    invalidation_log,     \* line 30
    cache_events,         \* line 33
    test_results,         \* line 249
    backend_comparisons,  \* line 250
    response,             \* what the last completed request returned
    clear_calls,          \* history: the bodies of all POST /clear, in order
    appended_events,      \* history: every event ever appended to cache_events
    result_calls,         \* history: the bodies of all POST /results
    comparison_calls,     \* history: the bodies of all POST /backend-comparison
    traffic_calls,        \* history: the `requests` of all POST /simulate-traffic
    savings_seen,         \* history: summaries of GET /savings since the last
                          \* POST /simulate-traffic (the last two at most)
    tasks,                \* event loop: each in-flight request's position
    running               \* event loop: the task holding the loop, 0 if none

vars == <<invalidation_log, cache_events, test_results, backend_comparisons,
          response, clear_calls, appended_events, result_calls,
          comparison_calls, traffic_calls, savings_seen, tasks, running>>

logs == <<invalidation_log, cache_events, test_results, backend_comparisons>>

histories == <<clear_calls, appended_events, result_calls, comparison_calls,
               traffic_calls, savings_seen>>

loop == <<tasks, running>>

-----------------------------------------------------------------------------
(* Python values and list operations *)

None == << >>

Some(v) == <<v>>

\* Python truthiness of an Optional[int]: None and 0 are falsy.
Truthy(opt) == opt # None /\ opt[1] # 0

\* s[-n:] for n > 0
LastN(s, n) == IF Len(s) <= n THEN s ELSE SubSeq(s, Len(s) - n + 1, Len(s))

\* s[:n]
FirstN(s, n) == IF Len(s) <= n THEN s ELSE SubSeq(s, 1, n)

\* max(a, b)
Max(a, b) == IF a >= b THEN a ELSE b

-----------------------------------------------------------------------------
(* Program constants *)

InvalidationCap == 100

EventsCap == 500

ResultsCap == 100

ComparisonsCap == 200

RecentInvalidations == 10

SeedEvents == 20

SimulatedTokens == 256

\* line 160, 226: the fallback price {"input": 1.0}, in cents
FallbackPrice == 100

-----------------------------------------------------------------------------
(* Bounds of the model *)

\* POST /clear calls in a run: enough to pass the cap of 100
MaxClears == 102

\* the first MaxVaried POST /clear calls take any body of ClearRequests;
\* later ones follow the fixed workload ClearWorkload
MaxVaried == 2

\* POST /backend-comparison calls in a run of SpecCompare
MaxComparisons == 3

\* POST /simulate-traffic calls in a run of SpecSavings
MaxTraffic == 2

\* requests the event loop may hold suspended at once in SpecLoop
NumTasks == 2

\* writing requests (POST) started in a run of SpecLoop
MaxWrites == 2

\* POST requests of all four kinds together in a run of Spec
MaxPosts == 3

\* POST /results calls in a run of SpecIngest: enough to pass the cap of 100
MaxLongResults == 102

\* POST /backend-comparison calls in a run of SpecIngest: enough to pass
\* the cap of 200
MaxLongComparisons == 202

-----------------------------------------------------------------------------
(* POST /clear, GET /stats, POST /lookup, GET /health, GET / *)

ClearRequest(instance_id, location, document_id, reason) ==
    [instance_id |-> instance_id, location |-> location,
     document_id |-> document_id, reason |-> reason]

\* Request bodies: the defaults of the model class, and document ids that
\* are absent, zero, negative and positive.
ClearRequests ==
    { ClearRequest("default", "LocalCPUBackend", None, None),
      ClearRequest("default", "LocalCPUBackend", Some(0), Some("edit")),
      ClearRequest("edge-1", "LocalDiskBackend", Some(-1), None),
      ClearRequest("default", "LocalCPUBackend", Some(42), Some("edit")) }

\* The n-th call of a long run invalidates document n.
ClearWorkload(n) == ClearRequest("default", "LocalCPUBackend", Some(n), Some("edit"))

ClearInputs(n) == IF n <= MaxVaried THEN ClearRequests ELSE {ClearWorkload(n)}

\* lines 79-86
LogEntry(request, now) ==
    [event_id |-> now, timestamp |-> now,
     instance_id |-> request.instance_id, location |-> request.location,
     document_id |-> request.document_id, reason |-> request.reason]

\* a plausible bug: pop() instead of pop(0)
EvictNewest(log, cap) == IF Len(log) > cap THEN SubSeq(log, 1, Len(log) - 1) ELSE log

\* a plausible bug: `>=` in the test, which evicts one call early
EvictAtCap(log, cap) == IF Len(log) >= cap THEN Tail(log) ELSE log

\* lines 90-91, 282-283, 315-316: if len(log) > cap: log.pop(0)
EvictOldest(log, cap) == IF Len(log) > cap THEN Tail(log) ELSE log

\* line 98: f"Cache cleared for document {id}" if id else "Cache cleared"
ClearMessage(document_id) ==
    IF Truthy(document_id)
    THEN <<"Cache cleared for document", document_id>>
    ELSE <<"Cache cleared">>

\* a plausible bug: invalidation_log[:10]
OldestInvalidations(log) == FirstN(log, RecentInvalidations)

\* line 139: invalidation_log[-10:]
RecentSlice(log) == LastN(log, RecentInvalidations)

clear_cache(request) ==
    LET now == Len(clear_calls) + 1
        log_entry == LogEntry(request, now)
    IN  /\ invalidation_log' =
              EvictOldest(Append(invalidation_log, log_entry), InvalidationCap)
        /\ clear_calls' = Append(clear_calls, request)
        /\ response' = [op |-> "clear_cache", status |-> 200, event_id |-> now,
                        num_tokens |-> SimulatedTokens,
                        message |-> ClearMessage(request.document_id)]
        /\ UNCHANGED <<cache_events, test_results, backend_comparisons>>
        /\ UNCHANGED <<appended_events, result_calls, comparison_calls,
                       traffic_calls, savings_seen, loop>>

LookupInputs == { << >>, <<7>>, <<7, 8, 9>> }

lookup_cache(tokens) ==
    /\ response' = [op |-> "lookup_cache", status |-> 200,
                    layout_info |-> <<"LocalCPUBackend", Len(tokens)>>]
    /\ UNCHANGED <<logs, histories, loop>>

health_check ==
    /\ response' = [op |-> "health_check", status |-> 200,
                    body |-> <<"healthy", "lmcache-mock-api">>]
    /\ UNCHANGED <<logs, histories, loop>>

\* a plausible bug: the read drains the log it reports
get_stats_draining ==
    /\ response' = [op |-> "get_stats", status |-> 200,
                    total_invalidations |-> Len(invalidation_log),
                    recent_invalidations |-> RecentSlice(invalidation_log)]
    /\ invalidation_log' = << >>
    /\ UNCHANGED <<cache_events, test_results, backend_comparisons, histories, loop>>

get_stats ==
    /\ response' = [op |-> "get_stats", status |-> 200,
                    total_invalidations |-> Len(invalidation_log),
                    recent_invalidations |-> RecentSlice(invalidation_log)]
    /\ UNCHANGED <<logs, histories, loop>>

root ==
    /\ response' = [op |-> "root", status |-> 200, body |-> "LMCache Mock API"]
    /\ UNCHANGED <<logs, histories, loop>>

-----------------------------------------------------------------------------
(* POST /backend-comparison, GET /backend-comparison *)

\* The fields of TestResult (lines 253-264) that a handler reads; the other
\* seven are stored and returned untouched.
TestResult(backend, context_size, avg_ttft_ms, performance_score) ==
    [backend |-> backend, context_size |-> context_size,
     avg_ttft_ms |-> avg_ttft_ms, performance_score |-> performance_score]

\* Bodies with context_size and performance_score absent or present.
ComparisonRequests ==
    { TestResult(b, c, IF b = "dynamo" THEN Some(120) ELSE None, p) :
        b \in {"dynamo", "lmcache"},
        c \in {None, Some(0), Some(8)},
        p \in {None, Some(1), Some(2)} }

\* lines 308-311: {**result.dict(), "received_at": now}.  result.dict()
\* holds every field of the model, the absent ones as None.
ComparisonEntry(result, now) ==
    [backend |-> result.backend, context_size |-> result.context_size,
     avg_ttft_ms |-> result.avg_ttft_ms,
     performance_score |-> result.performance_score, received_at |-> now]

receive_backend_comparison(result) ==
    LET now == Len(comparison_calls) + 1
        entry == ComparisonEntry(result, now)
    IN  /\ backend_comparisons' =
              EvictOldest(Append(backend_comparisons, entry), ComparisonsCap)
        /\ comparison_calls' = Append(comparison_calls, result)
        /\ response' = [op |-> "receive_backend_comparison", status |-> 200,
                        total_comparisons |-> Len(backend_comparisons')]
        /\ UNCHANGED <<invalidation_log, cache_events, test_results>>
        /\ UNCHANGED <<clear_calls, appended_events, result_calls,
                       traffic_calls, savings_seen, loop>>

\* line 335: comp.get("context_size", 0).  The key is always in the entry
\* (see ComparisonEntry), so the default 0 is never taken and an absent
\* context_size groups under None.
ContextOf(comp) == comp.context_size

\* line 341: x.get("performance_score", 999); the default is never taken
\* either, an absent score is the key None.
ScoreKey(comp) == comp.performance_score

\* Python's `a < b` on two keys: TypeError when either is None.
KeyLess(a, b) ==
    IF a = None \/ b = None
    THEN [raised |-> TRUE, value |-> FALSE]
    ELSE [raised |-> FALSE, value |-> a[1] < b[1]]

\* a plausible bug: `<=` keeps the last of several minimal records
KeyLessOrEqual(a, b) ==
    IF a = None \/ b = None
    THEN [raised |-> TRUE, value |-> FALSE]
    ELSE [raised |-> FALSE, value |-> a[1] <= b[1]]

\* line 341: min(comps, key=...): the first record is the candidate, each
\* later record replaces it when its key is less; a comparison that raises
\* ends the scan.  << >> stands for the TypeError.
RECURSIVE MinFrom(_, _, _)
MinFrom(comps, i, best) ==
    IF i > Len(comps) THEN Some(best)
    ELSE LET lt == KeyLess(ScoreKey(comps[i]), ScoreKey(best))
         IN  IF lt.raised THEN << >>
             ELSE MinFrom(comps, i + 1, IF lt.value THEN comps[i] ELSE best)

PyMin(comps) == MinFrom(comps, 2, comps[1])

\* lines 334-336: by_context[ctx] is the records of that context, in order
GroupOf(comparisons, ctx) == SelectSeq(comparisons, LAMBDA c : ContextOf(c) = ctx)

Contexts(comparisons) == { ContextOf(comparisons[i]) : i \in 1..Len(comparisons) }

\* lines 342-347
WinnerEntry(comps) ==
    LET winner == PyMin(comps)[1]
    IN  [winner |-> winner.backend, score |-> winner.performance_score,
         ttft_ms |-> winner.avg_ttft_ms,
         all_backends |-> [i \in 1..Len(comps) |-> comps[i].backend]]

\* lines 330-354.  An exception leaving the handler is the framework's
\* 500 response.
get_backend_comparison ==
    LET ctxs == Contexts(backend_comparisons)
        raises == \E ctx \in ctxs : PyMin(GroupOf(backend_comparisons, ctx)) = << >>
    IN  /\ response' =
              IF raises
              THEN [op |-> "get_backend_comparison", status |-> 500,
                    error |-> "TypeError"]
              ELSE [op |-> "get_backend_comparison", status |-> 200,
                    total_comparisons |-> Len(backend_comparisons),
                    winners_by_context |->
                        [ctx \in ctxs |->
                            WinnerEntry(GroupOf(backend_comparisons, ctx))],
                    recent_comparisons |-> LastN(backend_comparisons, 10)]
        /\ UNCHANGED <<logs, histories, loop>>

-----------------------------------------------------------------------------
(* GET /savings, POST /simulate-traffic *)

\* lines 36-43, in cents per million tokens
TOKEN_PRICING ==
    [m \in {"gpt-4o", "gpt-4o-mini", "claude-3-5-sonnet", "claude-3-haiku",
            "llama-3.1-70b", "deepseek-v3"} |->
        CASE m = "gpt-4o" -> [input |-> 250, output |-> 1000]
          [] m = "gpt-4o-mini" -> [input |-> 15, output |-> 60]
          [] m = "claude-3-5-sonnet" -> [input |-> 300, output |-> 1500]
          [] m = "claude-3-haiku" -> [input |-> 25, output |-> 125]
          [] m = "llama-3.1-70b" -> [input |-> 52, output |-> 75]
          [] m = "deepseek-v3" -> [input |-> 14, output |-> 28]]

\* line 155
SeedModels == <<"claude-3-5-sonnet", "gpt-4o", "gpt-4o-mini">>

\* line 220
TrafficModels == <<"claude-3-5-sonnet", "gpt-4o", "gpt-4o-mini", "llama-3.1-70b">>

\* The streams `random` may produce during one call: every draw of
\* random.random() above the threshold, every draw below it, and a mix.
Streams == {"hits", "misses", "mixed"}

StreamOffset(stream) ==
    CASE stream = "hits" -> 0 [] stream = "misses" -> 1 [] stream = "mixed" -> 2

\* random.choice(models), the i-th iteration of the call
Choice(models, stream, i) == models[((StreamOffset(stream) + i) % Len(models)) + 1]

\* random.random() > threshold, the i-th iteration of the call
IsHit(stream, i) ==
    CASE stream = "hits" -> TRUE
      [] stream = "misses" -> FALSE
      [] stream = "mixed" -> i % 4 # 1

\* random.randint(lo, hi), the i-th iteration: lo, the middle or hi
RandInt(lo, hi, stream, i) ==
    lo + ((StreamOffset(stream) + 2 * i) % 3) * ((hi - lo) \div 2)

\* a plausible bug: the output price
PricingOutput(model) ==
    IF model \in DOMAIN TOKEN_PRICING THEN TOKEN_PRICING[model].output
    ELSE FallbackPrice

\* lines 160, 226: TOKEN_PRICING.get(model, {"input": 1.0})["input"]
PricingInput(model) ==
    IF model \in DOMAIN TOKEN_PRICING THEN TOKEN_PRICING[model].input
    ELSE FallbackPrice

\* lines 167, 233: (input_tokens / 1_000_000) * pricing["input"] if is_hit
\* else 0, in micro-dollars
SavedDollars(is_hit, input_tokens, model) ==
    IF is_hit THEN (input_tokens * PricingInput(model)) \div 100 ELSE 0

\* lines 162-169, 228-235
CacheEvent(model, is_hit, input_tokens, latency_ms, now) ==
    [event_type |-> IF is_hit THEN "hit" ELSE "miss", model |-> model,
     input_tokens |-> input_tokens, latency_ms |-> latency_ms,
     saved_dollars |-> SavedDollars(is_hit, input_tokens, model),
     timestamp |-> now]

\* lines 157-169: iteration i of the seeding loop
SeedEvent(stream, i, now) ==
    LET is_hit == IsHit(stream, i)
    IN  CacheEvent(Choice(SeedModels, stream, i), is_hit,
                   RandInt(5000, 20000, stream, i),
                   IF is_hit THEN RandInt(100, 300, stream, i)
                   ELSE RandInt(2000, 4000, stream, i),
                   now)

\* lines 223-235: iteration i of the traffic loop
TrafficEvent(stream, i, now) ==
    LET is_hit == IsHit(stream, i)
    IN  CacheEvent(Choice(TrafficModels, stream, i), is_hit,
                   RandInt(5000, 25000, stream, i),
                   IF is_hit THEN RandInt(80, 250, stream, i)
                   ELSE RandInt(1800, 4500, stream, i),
                   now)

\* a plausible bug: `if len(cache_events) <= 20`
NeedsSeedingBelow(events) == Len(events) <= SeedEvents

\* line 153: `if not cache_events`
NeedsSeeding(events) == events = << >>

\* a plausible bug: range(1, 20), one event short
SeedBatchShort(stream, base) ==
    [k \in 1..(SeedEvents - 1) |-> SeedEvent(stream, k - 1, base + k)]

\* the events the seeding loop appends, lines 156-169
SeedBatch(stream, base) ==
    [k \in 1..SeedEvents |-> SeedEvent(stream, k - 1, base + k)]

\* a plausible bug: cache_events[:500]
KeepOldestEvents(events) ==
    IF Len(events) > EventsCap THEN FirstN(events, EventsCap) ELSE events

\* lines 238-239: cache_events[:] = cache_events[-500:]
TruncateEvents(events) ==
    IF Len(events) > EventsCap THEN LastN(events, EventsCap) ELSE events

\* sum(e["saved_dollars"] for e in events[lo..hi]), by halves
RECURSIVE SumSaved(_, _, _)
SumSaved(events, lo, hi) ==
    IF lo > hi THEN 0
    ELSE IF lo = hi THEN events[lo].saved_dollars
    ELSE LET mid == (lo + hi) \div 2
         IN  SumSaved(events, lo, mid) + SumSaved(events, mid + 1, hi)

\* round(n / d) for n >= 0, d > 0: to the nearest, a tie to the even one
RoundDiv(n, d) ==
    LET q == n \div d
        r == n % d
    IN  IF 2 * r < d THEN q
        ELSE IF 2 * r > d THEN q + 1
        ELSE IF q % 2 = 0 THEN q ELSE q + 1

\* line 172
CountHits(events) == Cardinality({i \in 1..Len(events) : events[i].event_type = "hit"})

\* line 173
CountMisses(events) == Cardinality({i \in 1..Len(events) : events[i].event_type = "miss"})

\* line 174, in micro-dollars
TotalSaved(events) == SumSaved(events, 1, Len(events))

\* a plausible bug: the hits per miss
HitsPerMissPercent(events) ==
    RoundDiv(CountHits(events) * 1000, Max(CountMisses(events), 1))

\* lines 180, 193: round(total_hits / max(len(cache_events), 1) * 100, 1),
\* in tenths of a percent
HitRatePercent(events) == RoundDiv(CountHits(events) * 1000, Max(Len(events), 1))

\* lines 189-195; total_saved_dollars is round(total_saved, 4), in 1e-4 $
Summary(events) ==
    [total_requests |-> Len(events),
     cache_hits |-> CountHits(events),
     cache_misses |-> CountMisses(events),
     hit_rate_percent |-> HitRatePercent(events),
     total_saved_dollars |-> RoundDiv(TotalSaved(events), 100)]

\* sum(e["latency_ms"] for e in events[lo..hi] if e["event_type"] == kind),
\* by halves
RECURSIVE SumLatency(_, _, _, _)
SumLatency(events, kind, lo, hi) ==
    IF lo > hi THEN 0
    ELSE IF lo = hi
         THEN IF events[lo].event_type = kind THEN events[lo].latency_ms ELSE 0
    ELSE LET mid == (lo + hi) \div 2
         IN  SumLatency(events, kind, lo, mid) + SumLatency(events, kind, mid + 1, hi)

\* Python's n / d as an exact fraction; << >> stands for ZeroDivisionError
Divide(n, d) == IF d = 0 THEN << >> ELSE Some([num |-> n, den |-> d])

\* a plausible bug: the bare count as the denominator
NoFloor(count) == count

\* lines 176, 177: max(total_hits, 1), max(total_misses, 1)
FloorOne(count) == Max(count, 1)

\* line 199: max(avg_miss_latency, 1), on a fraction with den > 0
FloorOneFraction(f) == IF f.num >= f.den THEN f ELSE [num |-> 1, den |-> 1]

\* line 199: a / b on two fractions; ZeroDivisionError when b is 0
DivideFractions(a, b) == Divide(a.num * b.den, a.den * b.num)

\* lines 176-177, 196-200.  latency_improvement is 1 - avg_hit / floor as
\* an exact fraction (the code returns it times 100, rounded to a tenth);
\* improvement_denominator is the floor it divided by.  << >> when a
\* division of the computation raises.
LatencyReport(events) ==
    LET avg_hit == Divide(SumLatency(events, "hit", 1, Len(events)),
                          FloorOne(CountHits(events)))
        avg_miss == Divide(SumLatency(events, "miss", 1, Len(events)),
                           FloorOne(CountMisses(events)))
    IN  IF avg_hit = << >> \/ avg_miss = << >> THEN << >>
        ELSE LET floor == FloorOneFraction(avg_miss[1])
                 ratio == DivideFractions(avg_hit[1], floor)
             IN  IF ratio = << >> THEN << >>
                 ELSE Some([avg_hit_latency_ms |->
                                RoundDiv(avg_hit[1].num, avg_hit[1].den),
                            avg_miss_latency_ms |->
                                RoundDiv(avg_miss[1].num, avg_miss[1].den),
                            improvement_denominator |-> floor,
                            latency_improvement |->
                                [num |-> ratio[1].den - ratio[1].num,
                                 den |-> ratio[1].den]])

\* lines 144-209.  An exception leaving the handler is the framework's 500
\* response; the seeding has happened by then.
get_savings(stream) ==
    LET seeded == NeedsSeeding(cache_events)
        batch == IF seeded THEN SeedBatch(stream, Len(appended_events)) ELSE << >>
        events == cache_events \o batch
        latency == LatencyReport(events)
    IN  /\ cache_events' = events
        /\ appended_events' = appended_events \o batch
        /\ response' =
              IF latency = << >>
              THEN [op |-> "get_savings", status |-> 500,
                    error |-> "ZeroDivisionError"]
              ELSE [op |-> "get_savings", status |-> 200,
                    summary |-> Summary(events), latency |-> latency[1]]
        /\ savings_seen' = LastN(Append(savings_seen, Summary(events)), 2)
        /\ UNCHANGED <<invalidation_log, test_results, backend_comparisons>>
        /\ UNCHANGED <<clear_calls, result_calls, comparison_calls,
                       traffic_calls, loop>>

\* the query parameter `requests`: negative, zero, the example of the
\* documentation, and more than the cap
TrafficRequests == {-1, 0, 10, 501}

\* lines 222-235: range(requests) is empty for requests <= 0
TrafficBatch(requests, stream, base) ==
    [k \in 1..requests |-> TrafficEvent(stream, k - 1, base + k)]

simulate_traffic(requests, stream) ==
    LET batch == TrafficBatch(requests, stream, Len(appended_events))
    IN  /\ cache_events' = TruncateEvents(cache_events \o batch)
        /\ appended_events' = appended_events \o batch
        /\ traffic_calls' = Append(traffic_calls, requests)
        /\ response' = [op |-> "simulate_traffic", status |-> 200,
                        simulated_requests |-> requests,
                        total_events |-> Len(cache_events')]
        /\ savings_seen' = << >>
        /\ UNCHANGED <<invalidation_log, test_results, backend_comparisons>>
        /\ UNCHANGED <<clear_calls, result_calls, comparison_calls, loop>>

-----------------------------------------------------------------------------
(* POST /results, GET /results *)

\* lines 275-278
ResultEntry(result, now) ==
    [backend |-> result.backend, context_size |-> result.context_size,
     avg_ttft_ms |-> result.avg_ttft_ms,
     performance_score |-> result.performance_score, received_at |-> now]

receive_results(result) ==
    LET now == Len(result_calls) + 1
        entry == ResultEntry(result, now)
    IN  /\ test_results' = EvictOldest(Append(test_results, entry), ResultsCap)
        /\ result_calls' = Append(result_calls, result)
        /\ response' = [op |-> "receive_results", status |-> 200,
                        total_results |-> Len(test_results')]
        /\ UNCHANGED <<invalidation_log, cache_events, backend_comparisons>>
        /\ UNCHANGED <<clear_calls, appended_events, comparison_calls,
                       traffic_calls, savings_seen, loop>>

get_results ==
    /\ response' = [op |-> "get_results", status |-> 200,
                    total_results |-> Len(test_results),
                    results |-> LastN(test_results, 20)]
    /\ UNCHANGED <<logs, histories, loop>>

\* The n-th record of a long run of the Expanso pipeline: every field
\* present, three context sizes, two backends.
ResultWorkload(n) ==
    TestResult(IF n % 2 = 0 THEN "dynamo" ELSE "lmcache", Some(8 * (n % 3)),
               Some(100 + n), Some(n))

-----------------------------------------------------------------------------
(* The event loop *)
(* uvicorn.run(app) serves every request on one asyncio event loop, and    *)
(* every handler is a coroutine: once started it runs until it awaits or   *)
(* returns, and other requests run only then.  A writing handler is two    *)
(* steps here, its append and its truncation with the return, so that what *)
(* a request could see between them is a state of the model.               *)

Tasks == 1..NumTasks

Idle == [pc |-> "idle"]

IdleTasks == [slot |-> [t \in Tasks |-> Idle], writes |-> 0]

\* a plausible bug: an `await` between the append and the truncation
AwaitAfterAppend ==
    {"clear_appended", "traffic_appended", "results_appended", "comparison_appended"}

\* The positions at which a handler gives up the loop: no handler body
\* (lines 69-99, 145-209, 213-245, 268-287, 301-320) holds an await.
AwaitPoints == {}

\* who holds the loop once task t has reached pc
Holder(t, pc) == IF pc \in AwaitPoints THEN 0 ELSE t

CanStart(t) == running = 0 /\ tasks.slot[t].pc = "idle" /\ tasks.writes < MaxWrites

CanResume(t, pc) == tasks.slot[t].pc = pc /\ running \in {0, t}

Suspend(t, frame) ==
    /\ tasks' = [slot |-> [tasks.slot EXCEPT ![t] = frame],
                 writes |-> tasks.writes + 1]
    /\ running' = Holder(t, frame.pc)

Return(t) ==
    /\ tasks' = [tasks EXCEPT !.slot[t] = Idle]
    /\ running' = 0

\* lines 76-87
begin_clear(t, request) ==
    LET now == Len(clear_calls) + 1
    IN  /\ CanStart(t)
        /\ invalidation_log' = Append(invalidation_log, LogEntry(request, now))
        /\ clear_calls' = Append(clear_calls, request)
        /\ Suspend(t, [pc |-> "clear_appended", request |-> request,
                       event_id |-> now])
        /\ UNCHANGED <<cache_events, test_results, backend_comparisons, response>>
        /\ UNCHANGED <<appended_events, result_calls, comparison_calls,
                       traffic_calls, savings_seen>>

\* lines 90-99
finish_clear(t) ==
    /\ CanResume(t, "clear_appended")
    /\ invalidation_log' = EvictOldest(invalidation_log, InvalidationCap)
    /\ response' = [op |-> "clear_cache", status |-> 200,
                    event_id |-> tasks.slot[t].event_id,
                    num_tokens |-> SimulatedTokens,
                    message |-> ClearMessage(tasks.slot[t].request.document_id)]
    /\ Return(t)
    /\ UNCHANGED <<cache_events, test_results, backend_comparisons, histories>>

\* lines 220-235
begin_traffic(t, requests, stream) ==
    LET batch == TrafficBatch(requests, stream, Len(appended_events))
    IN  /\ CanStart(t)
        /\ cache_events' = cache_events \o batch
        /\ appended_events' = appended_events \o batch
        /\ traffic_calls' = Append(traffic_calls, requests)
        /\ savings_seen' = << >>
        /\ Suspend(t, [pc |-> "traffic_appended", requests |-> requests])
        /\ UNCHANGED <<invalidation_log, test_results, backend_comparisons, response>>
        /\ UNCHANGED <<clear_calls, result_calls, comparison_calls>>

\* lines 238-245
finish_traffic(t) ==
    /\ CanResume(t, "traffic_appended")
    /\ cache_events' = TruncateEvents(cache_events)
    /\ response' = [op |-> "simulate_traffic", status |-> 200,
                    simulated_requests |-> tasks.slot[t].requests,
                    total_events |-> Len(cache_events')]
    /\ Return(t)
    /\ UNCHANGED <<invalidation_log, test_results, backend_comparisons, histories>>

\* lines 275-279
begin_results(t, result) ==
    LET now == Len(result_calls) + 1
    IN  /\ CanStart(t)
        /\ test_results' = Append(test_results, ResultEntry(result, now))
        /\ result_calls' = Append(result_calls, result)
        /\ Suspend(t, [pc |-> "results_appended"])
        /\ UNCHANGED <<invalidation_log, cache_events, backend_comparisons, response>>
        /\ UNCHANGED <<clear_calls, appended_events, comparison_calls,
                       traffic_calls, savings_seen>>

\* lines 282-287
finish_results(t) ==
    /\ CanResume(t, "results_appended")
    /\ test_results' = EvictOldest(test_results, ResultsCap)
    /\ response' = [op |-> "receive_results", status |-> 200,
                    total_results |-> Len(test_results')]
    /\ Return(t)
    /\ UNCHANGED <<invalidation_log, cache_events, backend_comparisons, histories>>

\* lines 308-312
begin_comparison(t, result) ==
    LET now == Len(comparison_calls) + 1
    IN  /\ CanStart(t)
        /\ backend_comparisons' =
              Append(backend_comparisons, ComparisonEntry(result, now))
        /\ comparison_calls' = Append(comparison_calls, result)
        /\ Suspend(t, [pc |-> "comparison_appended"])
        /\ UNCHANGED <<invalidation_log, cache_events, test_results, response>>
        /\ UNCHANGED <<clear_calls, appended_events, result_calls,
                       traffic_calls, savings_seen>>

\* lines 315-320
finish_comparison(t) ==
    /\ CanResume(t, "comparison_appended")
    /\ backend_comparisons' = EvictOldest(backend_comparisons, ComparisonsCap)
    /\ response' = [op |-> "receive_backend_comparison", status |-> 200,
                    total_comparisons |-> Len(backend_comparisons')]
    /\ Return(t)
    /\ UNCHANGED <<invalidation_log, cache_events, test_results, histories>>

-----------------------------------------------------------------------------
(* Specifications *)

NoResponse == [op |-> "none", status |-> 0]

Init ==
    /\ invalidation_log = << >>
    /\ cache_events = << >>
    /\ test_results = << >>
    /\ backend_comparisons = << >>
    /\ response = NoResponse
    /\ clear_calls = << >>
    /\ appended_events = << >>
    /\ result_calls = << >>
    /\ comparison_calls = << >>
    /\ traffic_calls = << >>
    /\ savings_seen = << >>
    /\ tasks = IdleTasks
    /\ running = 0

\* The invalidation endpoints and the stateless ones.
NextClear ==
    \/ /\ Len(clear_calls) < MaxClears
       /\ \E request \in ClearInputs(Len(clear_calls) + 1) : clear_cache(request)
    \/ \E tokens \in LookupInputs : lookup_cache(tokens)
    \/ health_check
    \/ get_stats
    \/ root

SpecClear == Init /\ [][NextClear]_vars

\* The backend-comparison endpoints.
NextCompare ==
    \/ /\ Len(comparison_calls) < MaxComparisons
       /\ \E result \in ComparisonRequests : receive_backend_comparison(result)
    \/ get_backend_comparison

SpecCompare == Init /\ [][NextCompare]_vars

\* The savings dashboard and the traffic simulator.
NextSavings ==
    \/ /\ Len(traffic_calls) < MaxTraffic
       /\ \E requests \in TrafficRequests, stream \in Streams :
             simulate_traffic(requests, stream)
    \/ \E stream \in Streams : get_savings(stream)

SpecSavings == Init /\ [][NextSavings]_vars

\* A server that has run for a while: the state after 100 POST /clear,
\* 100 POST /results and 200 POST /backend-comparison of the workloads, one
\* after the other, and no traffic yet.  Three logs are at their capacity.
InitLoaded ==
    /\ clear_calls = [n \in 1..InvalidationCap |-> ClearWorkload(n)]
    /\ invalidation_log =
          [n \in 1..InvalidationCap |-> LogEntry(ClearWorkload(n), n)]
    /\ result_calls = [n \in 1..ResultsCap |-> ResultWorkload(n)]
    /\ test_results = [n \in 1..ResultsCap |-> ResultEntry(ResultWorkload(n), n)]
    /\ comparison_calls = [n \in 1..ComparisonsCap |-> ResultWorkload(n)]
    /\ backend_comparisons =
          [n \in 1..ComparisonsCap |-> ComparisonEntry(ResultWorkload(n), n)]
    /\ cache_events = << >>
    /\ appended_events = << >>
    /\ traffic_calls = << >>
    /\ savings_seen = << >>
    /\ response = NoResponse
    /\ tasks = IdleTasks
    /\ running = 0

\* Requests served by the event loop: writers in two steps, readers in one,
\* a reader only when no handler holds the loop.
NextLoop ==
    \/ \E t \in Tasks : begin_clear(t, ClearWorkload(Len(clear_calls) + 1))
    \/ \E t \in Tasks : finish_clear(t)
    \/ \E t \in Tasks, requests \in {10, 501} : begin_traffic(t, requests, "mixed")
    \/ \E t \in Tasks : finish_traffic(t)
    \/ \E t \in Tasks : begin_results(t, ResultWorkload(Len(result_calls) + 1))
    \/ \E t \in Tasks : finish_results(t)
    \/ \E t \in Tasks : begin_comparison(t, ResultWorkload(Len(comparison_calls) + 1))
    \/ \E t \in Tasks : finish_comparison(t)
    \/ running = 0 /\ get_stats
    \/ running = 0 /\ get_results
    \/ running = 0 /\ get_backend_comparison
    \/ running = 0 /\ get_savings("mixed")

SpecLoop == InitLoaded /\ [][NextLoop]_vars

\* The two intake endpoints and GET /results, on long runs of the workload.
NextIngest ==
    \/ /\ Len(result_calls) < MaxLongResults
       /\ \E result \in {ResultWorkload(Len(result_calls) + 1)} :
             receive_results(result)
    \/ /\ Len(comparison_calls) < MaxLongComparisons
       /\ \E result \in {ResultWorkload(Len(comparison_calls) + 1)} :
             receive_backend_comparison(result)
    \/ get_results

SpecIngest == Init /\ [][NextIngest]_vars

\* The backend-comparison endpoints on a long run that passes the cap of
\* the comparison log, every record with a score.
NextCompareLong ==
    \/ /\ Len(comparison_calls) < MaxLongComparisons
       /\ \E result \in {ResultWorkload(Len(comparison_calls) + 1)} :
             receive_backend_comparison(result)
    \/ get_backend_comparison

SpecCompareLong == Init /\ [][NextCompareLong]_vars

\* The whole API, every route, on short runs.
Posts ==
    Len(clear_calls) + Len(traffic_calls) + Len(result_calls)
        + Len(comparison_calls)

Next ==
    \/ /\ Posts < MaxPosts
       /\ \E request \in {r \in ClearRequests : r.document_id \in {None, Some(42)}} :
             clear_cache(request)
    \/ \E tokens \in LookupInputs : lookup_cache(tokens)
    \/ health_check
    \/ get_stats
    \/ \E stream \in {"mixed"} : get_savings(stream)
    \/ /\ Posts < MaxPosts
       /\ \E requests \in {0, 10} : simulate_traffic(requests, "mixed")
    \/ /\ Posts < MaxPosts
       /\ \E result \in {ResultWorkload(Len(result_calls) + 1)} :
             receive_results(result)
    \/ get_results
    \/ /\ Posts < MaxPosts
       /\ \E result \in {c \in ComparisonRequests :
                           c.backend = "dynamo" /\ c.context_size = Some(8)} :
             receive_backend_comparison(result)
    \/ get_backend_comparison
    \/ root

Spec == Init /\ [][Next]_vars

-----------------------------------------------------------------------------
(* Claims about the invalidation log *)

\* the fields of a POST /clear body as they appear in a log record
SameRequest(entry, request) ==
    /\ entry.instance_id = request.instance_id
    /\ entry.location = request.location
    /\ entry.document_id = request.document_id
    /\ entry.reason = request.reason

(* C1: after N POST /clear calls from an empty log, the invalidation log   *)
(* holds exactly the records of the most recent min(N, 100) calls, in call *)
(* order (the oldest are evicted first).                                   *)
C1_LogIsLastHundred ==
    LET n == Len(clear_calls)
        k == IF n <= 100 THEN n ELSE 100
    IN  /\ Len(invalidation_log) = k
        /\ \A i \in 1..k :
              /\ invalidation_log[i].event_id = n - k + i
              /\ SameRequest(invalidation_log[i], clear_calls[n - k + i])

\* 102 calls were made: the log holds calls 3..102
C1_Witness ==
    /\ Len(clear_calls) = 102
    /\ response.op = "clear_cache"
    /\ Len(invalidation_log) = 100
    /\ invalidation_log[1].event_id = 3
    /\ invalidation_log[100].document_id = Some(102)

(* C4: the response to POST /clear has num_tokens 256; its message names   *)
(* the document id whenever the body supplies one (zero and negative ids   *)
(* included) and is the plain "Cache cleared" text when it supplies none.  *)
C4_MessageNamesDocument ==
    response.op = "clear_cache" =>
        LET document_id == clear_calls[Len(clear_calls)].document_id
        IN  /\ response.num_tokens = 256
            /\ document_id # None =>
                  response.message = <<"Cache cleared for document", document_id>>
            /\ document_id = None => response.message = <<"Cache cleared">>

(* C5: a GET /stats issued after a POST /clear and before any further      *)
(* clear reports total_invalidations >= 1, and recent_invalidations is the *)
(* last min(10, length) records of the log in insertion order, ending with *)
(* the record of that clear.                                               *)
C5_StatsShowLastClear ==
    (response.op = "get_stats" /\ clear_calls # << >>) =>
        LET recent == response.recent_invalidations
            len == Len(invalidation_log)
            m == IF len <= 10 THEN len ELSE 10
        IN  /\ response.total_invalidations >= 1
            /\ response.total_invalidations = len
            /\ Len(recent) = m
            /\ \A i \in 1..m : recent[i] = invalidation_log[len - m + i]
            /\ SameRequest(recent[m], clear_calls[Len(clear_calls)])
            /\ recent[m].event_id = Len(clear_calls)

\* a GET /stats of a log longer than 10 records, after the 42nd clear
C5_Witness ==
    /\ response.op = "get_stats"
    /\ Len(clear_calls) = 42
    /\ Len(response.recent_invalidations) = 10
    /\ response.recent_invalidations[10].document_id = Some(42)
    /\ response.recent_invalidations[1].document_id = Some(33)

-----------------------------------------------------------------------------
(* Claims about the backend comparison *)

\* a <= b on two scores that are present
ScoreAtMost(a, b) == a # None /\ b # None /\ a[1] <= b[1]

\* entry w reports record i of the group, which has a minimal score and is
\* the first of the group with that score
IsStableMinimum(w, group, i) ==
    /\ w.winner = group[i].backend
    /\ w.score = group[i].performance_score
    /\ \A j \in 1..Len(group) :
          j # i => ScoreAtMost(group[i].performance_score, group[j].performance_score)
    /\ \A j \in 1..(i - 1) : group[j].performance_score # group[i].performance_score

WinnersAreStableMinima ==
    \A ctx \in Contexts(backend_comparisons) :
        LET group == GroupOf(backend_comparisons, ctx)
        IN  /\ ctx \in DOMAIN response.winners_by_context
            /\ \E i \in 1..Len(group) :
                  IsStableMinimum(response.winners_by_context[ctx], group, i)

(* C2: for any stored comparison records, GET /backend-comparison reports  *)
(* for each context_size group a winner whose performance_score is at most *)
(* that of every other record of the group, the first inserted among those *)
(* that share the minimum.                                                 *)
C2_WinnerIsStableMinimum ==
    response.op = "get_backend_comparison" =>
        (response.status = 200 /\ WinnersAreStableMinima)

\* What the code does keep of C2: whenever the handler returns a report,
\* its winners are the stable minima of their groups.
C2_ReportedWinnersAreMinima ==
    (response.op = "get_backend_comparison" /\ response.status = 200) =>
        WinnersAreStableMinima

(* C3: after any sequence of POST /backend-comparison records, records     *)
(* without performance_score or context_size included, every GET           *)
(* /backend-comparison returns a response and raises no error.             *)
C3_ComparisonReportIsTotal ==
    response.op = "get_backend_comparison" => response.status = 200

-----------------------------------------------------------------------------
(* Claims about the cache-event log *)

\* the totals of a summary, aggregated directly over a log
AggregatesOf(summary, events) ==
    LET hits == {i \in 1..Len(events) : events[i].event_type = "hit"}
        misses == {i \in 1..Len(events) : events[i].event_type = "miss"}
    IN  /\ summary.total_requests = Len(events)
        /\ summary.cache_hits = Cardinality(hits)
        /\ summary.cache_misses = Cardinality(misses)
        /\ summary.total_saved_dollars =
              RoundDiv(SumSaved(events, 1, Len(events)), 100)

(* C6: a GET /savings that follows another GET /savings with no POST       *)
(* /simulate-traffic in between leaves the cache-event log as it was (it   *)
(* seeds nothing) and returns the totals of the first; the totals of every *)
(* GET /savings are the direct aggregation over the log it leaves.         *)
C6_SavingsRepeatable ==
    [][ (response'.op = "get_savings" /\ savings_seen' # savings_seen) =>
          /\ AggregatesOf(response'.summary, cache_events')
          /\ savings_seen # << >> =>
                /\ cache_events' = cache_events
                /\ response'.summary = savings_seen[Len(savings_seen)] ]_vars

\* two GET /savings in a row on the seeded log, which holds hits and misses
C6_Witness ==
    /\ response.op = "get_savings"
    /\ Len(savings_seen) = 2
    /\ savings_seen[1] = savings_seen[2]
    /\ response.summary.total_requests = 20
    /\ response.summary.cache_misses > 0
    /\ response.summary.cache_hits > 0

(* C7: every event of the cache-event log, appended by POST                *)
(* /simulate-traffic or by the seeding of GET /savings, names a model of   *)
(* the price table, has saved_dollars 0 when it is a miss and              *)
(* (input_tokens / 1,000,000) * the model's input price when it is a hit.  *)
C7_SavedDollarsFollowPricing ==
    \A i \in 1..Len(cache_events) :
        LET e == cache_events[i]
        IN  /\ e.model \in DOMAIN TOKEN_PRICING
            /\ e.event_type \in {"hit", "miss"}
            /\ e.event_type = "miss" => e.saved_dollars = 0
            /\ e.event_type = "hit" =>
                  e.saved_dollars * 100 = e.input_tokens * TOKEN_PRICING[e.model].input

\* a log with a seeded hit, a simulated hit on the fourth model and a miss
C7_Witness ==
    /\ \E i \in 1..Len(cache_events) :
          /\ cache_events[i].event_type = "hit"
          /\ cache_events[i].model = "llama-3.1-70b"
          /\ cache_events[i].saved_dollars > 0
    /\ \E i \in 1..Len(cache_events) : cache_events[i].event_type = "miss"
    /\ Len(cache_events) > SeedEvents
    /\ cache_events[1] = appended_events[1]
    /\ traffic_calls = <<10>>

(* C8: the cache-event log never holds more than 500 events, and holds the *)
(* most recently appended ones in insertion order; the total_events that   *)
(* POST /simulate-traffic returns is the length of the log after the       *)
(* truncation, also when one call asks for more than 500 requests.         *)
C8_EventsAreLastFiveHundred ==
    LET n == Len(appended_events)
        k == IF n <= 500 THEN n ELSE 500
    IN  /\ Len(cache_events) = k
        /\ \A i \in 1..k : cache_events[i] = appended_events[n - k + i]
        /\ response.op = "simulate_traffic" => response.total_events = k

\* one call asked for 501 requests on a log that held events already
C8_Witness ==
    /\ response.op = "simulate_traffic"
    /\ response.simulated_requests = 501
    /\ response.total_events = 500
    /\ Len(appended_events) = 521
    /\ cache_events[1].timestamp = 22

(* C9: a GET /savings after a POST /simulate-traffic of N requests reports *)
(* total_requests >= min(N, 500), cache_hits + cache_misses =              *)
(* total_requests and a hit_rate_percent from 0 to 100, from any state,    *)
(* the empty log and N = 0 included.                                       *)
C9_SavingsAfterTraffic ==
    (response.op = "get_savings" /\ traffic_calls # << >>) =>
        LET summary == response.summary
        IN  /\ \A c \in 1..Len(traffic_calls) :
                  summary.total_requests >=
                      (IF traffic_calls[c] <= 500 THEN traffic_calls[c] ELSE 500)
            /\ summary.cache_hits + summary.cache_misses = summary.total_requests
            /\ summary.hit_rate_percent >= 0
            /\ summary.hit_rate_percent <= 1000

\* the empty log and N = 0: the GET seeds, then reports the 20 events
C9_Witness ==
    /\ response.op = "get_savings"
    /\ traffic_calls = <<0>>
    /\ response.summary.total_requests = 20
    /\ response.summary.hit_rate_percent = 1000

-----------------------------------------------------------------------------
(* Claims about concurrent requests *)

\* the records of a log are those of the last calls, each once, in order
SameResult(entry, result) ==
    /\ entry.backend = result.backend
    /\ entry.context_size = result.context_size
    /\ entry.avg_ttft_ms = result.avg_ttft_ms
    /\ entry.performance_score = result.performance_score

NothingLostOrDuplicated ==
    /\ LET n == Len(clear_calls)
           k == IF n <= 100 THEN n ELSE 100
       IN  /\ Len(invalidation_log) = k
           /\ \A i \in 1..k :
                 /\ invalidation_log[i].event_id = n - k + i
                 /\ SameRequest(invalidation_log[i], clear_calls[n - k + i])
    /\ LET n == Len(result_calls)
           k == IF n <= 100 THEN n ELSE 100
       IN  /\ Len(test_results) = k
           /\ \A i \in 1..k :
                 /\ test_results[i].received_at = n - k + i
                 /\ SameResult(test_results[i], result_calls[n - k + i])
    /\ LET n == Len(comparison_calls)
           k == IF n <= 200 THEN n ELSE 200
       IN  /\ Len(backend_comparisons) = k
           /\ \A i \in 1..k :
                 /\ backend_comparisons[i].received_at = n - k + i
                 /\ SameResult(backend_comparisons[i], comparison_calls[n - k + i])
    /\ LET n == Len(appended_events)
           k == IF n <= 500 THEN n ELSE 500
       IN  /\ Len(cache_events) = k
           /\ \A i \in 1..k : cache_events[i] = appended_events[n - k + i]

ReadersSeeNoOverfullLog ==
    /\ response.op = "get_stats" => response.total_invalidations <= 100
    /\ response.op = "get_results" => response.total_results <= 100
    /\ (response.op = "get_backend_comparison" /\ response.status = 200) =>
          response.total_comparisons <= 200
    /\ response.op = "get_savings" => response.summary.total_requests <= 500

(* C10: however the event loop interleaves concurrently submitted          *)
(* requests, the append and the truncation of a log are one step to every  *)
(* reader: no GET /stats, /results, /backend-comparison or /savings sees a *)
(* log above its capacity (100, 100, 200, 500), and whenever a request can *)
(* run, each log holds the records of the last appends, each exactly once. *)
C10_AppendTruncateAtomic ==
    /\ ReadersSeeNoOverfullLog
    /\ running = 0 => NothingLostOrDuplicated

\* after a GET /stats saw the full log, a second writer has appended the
\* 102nd record and holds the loop with the log one above its capacity
C10_Witness ==
    /\ response.op = "get_stats"
    /\ response.total_invalidations = 100
    /\ Len(clear_calls) = 102
    /\ Len(invalidation_log) = 101
    /\ running # 0
    /\ tasks.slot[running].pc = "clear_appended"

-----------------------------------------------------------------------------
(* Claims about the intake logs *)

(* C11: after n POST /results the test-results log holds exactly the       *)
(* records of the last min(n, 100) calls in insertion order, after m POST  *)
(* /backend-comparison the comparison log those of the last min(m, 200);   *)
(* the total_results / total_comparisons a POST returns is the length of   *)
(* its log after the eviction and never above the cap.                     *)
C11_IntakeLogsAreBounded ==
    LET n == Len(result_calls)
        k == IF n <= 100 THEN n ELSE 100
        m == Len(comparison_calls)
        j == IF m <= 200 THEN m ELSE 200
    IN  /\ Len(test_results) = k
        /\ \A i \in 1..k :
              /\ test_results[i].received_at = n - k + i
              /\ test_results[i].backend = result_calls[n - k + i].backend
              /\ test_results[i].performance_score =
                    result_calls[n - k + i].performance_score
        /\ Len(backend_comparisons) = j
        /\ \A i \in 1..j :
              /\ backend_comparisons[i].received_at = m - j + i
              /\ backend_comparisons[i].backend = comparison_calls[m - j + i].backend
              /\ backend_comparisons[i].performance_score =
                    comparison_calls[m - j + i].performance_score
        /\ response.op = "receive_results" =>
              (response.total_results = k /\ response.total_results <= 100)
        /\ response.op = "receive_backend_comparison" =>
              (response.total_comparisons = j /\ response.total_comparisons <= 200)

\* 102 results and 202 comparisons were posted: each log holds calls 3..
C11_Witness ==
    /\ Len(result_calls) = 102
    /\ Len(comparison_calls) = 202
    /\ response.op = "receive_backend_comparison"
    /\ response.total_comparisons = 200
    /\ test_results[1].received_at = 3
    /\ backend_comparisons[1].received_at = 3
    /\ backend_comparisons[200].performance_score = Some(202)

-----------------------------------------------------------------------------
(* Further claims about the savings report *)

(* C12: GET /savings returns its report in every reachable state, with no  *)
(* division error: the average hit latency is 0 when the log holds no hit, *)
(* the average miss latency is 0 when it holds no miss, and the latency    *)
(* improvement divides by a value of at least 1.                           *)
C12_SavingsNeverDivideByZero ==
    response.op = "get_savings" =>
        /\ response.status = 200
        /\ (\A i \in 1..Len(cache_events) : cache_events[i].event_type # "hit") =>
              response.latency.avg_hit_latency_ms = 0
        /\ (\A i \in 1..Len(cache_events) : cache_events[i].event_type # "miss") =>
              response.latency.avg_miss_latency_ms = 0
        /\ response.latency.improvement_denominator.den > 0
        /\ response.latency.improvement_denominator.num >=
              response.latency.improvement_denominator.den

\* a log of ten misses and no hit: the hit average is 0, the miss average
\* is not
C12_Witness ==
    /\ response.op = "get_savings"
    /\ response.status = 200
    /\ response.summary.total_requests = 10
    /\ response.summary.cache_hits = 0
    /\ response.latency.avg_hit_latency_ms = 0
    /\ response.latency.avg_miss_latency_ms >= 1800

(* C13: GET /savings appends exactly 20 events when the cache-event log is *)
(* empty as it is called and none otherwise; a log that holds an event is  *)
(* never emptied again, so the seeding happens at most once, and only      *)
(* while nothing was ever appended.                                        *)
C13_SeedsOnceWhenEmpty ==
    [][ /\ cache_events # << >> => cache_events' # << >>
        /\ (cache_events = << >>) <=> (appended_events = << >>)
        /\ (response'.op = "get_savings" /\ savings_seen' # savings_seen) =>
              IF cache_events = << >>
              THEN /\ Len(cache_events') = 20
                   /\ Len(appended_events') = Len(appended_events) + 20
              ELSE /\ cache_events' = cache_events
                   /\ appended_events' = appended_events ]_vars

\* the log was seeded, ten simulated events followed, and the GET /savings
\* after them appended nothing
C13_Witness ==
    /\ response.op = "get_savings"
    /\ traffic_calls = <<10>>
    /\ Len(savings_seen) = 1
    /\ Len(appended_events) = 30
    /\ Len(cache_events) = 30
    /\ response.summary.total_requests = 30

-----------------------------------------------------------------------------
(* Claims about the whole API *)

(* C14: the four logs are independent and reads do not write.  POST /clear *)
(* changes only the invalidation log, POST /simulate-traffic only the      *)
(* cache-event log, POST /results only the test-results log, POST          *)
(* /backend-comparison only the comparison log; POST /lookup, GET /health, *)
(* /stats, /results, /backend-comparison and GET / change no log, and GET  *)
(* /savings at most the cache-event log.                                   *)
C14_HandlersWriteOnlyTheirLog ==
    [][ LET op == response'.op
        IN  /\ op = "clear_cache" =>
                  /\ invalidation_log' # invalidation_log
                  /\ UNCHANGED <<cache_events, test_results, backend_comparisons>>
            /\ op = "simulate_traffic" =>
                  UNCHANGED <<invalidation_log, test_results, backend_comparisons>>
            /\ op = "receive_results" =>
                  /\ test_results' # test_results
                  /\ UNCHANGED <<invalidation_log, cache_events, backend_comparisons>>
            /\ op = "receive_backend_comparison" =>
                  /\ backend_comparisons' # backend_comparisons
                  /\ UNCHANGED <<invalidation_log, cache_events, test_results>>
            /\ op \in {"lookup_cache", "health_check", "get_stats", "get_results",
                       "get_backend_comparison", "root"} =>
                  UNCHANGED <<invalidation_log, cache_events, test_results,
                              backend_comparisons>>
            /\ op = "get_savings" =>
                  UNCHANGED <<invalidation_log, test_results, backend_comparisons>>
      ]_vars

\* GET /savings has seeded the cache-event log while the other three logs
\* held a record each, and left them
C14_Witness ==
    /\ response.op = "get_savings"
    /\ Len(cache_events) = 20
    /\ Len(invalidation_log) = 1
    /\ Len(test_results) = 1
    /\ Len(backend_comparisons) = 1
    /\ Len(savings_seen) = 1

-----------------------------------------------------------------------------
(* Further claims about the backend comparison *)

\* the positions in the log of the records of one context_size
PositionsOf(comparisons, ctx) ==
    {i \in 1..Len(comparisons) : comparisons[i].context_size = ctx}

\* the k-th position of a set of positions, in insertion order
NthOf(positions, k) ==
    CHOOSE i \in positions : Cardinality({j \in positions : j < i}) = k - 1

\* the report groups exactly the records now in the log
PartitionOfRetained ==
    LET retained == backend_comparisons
        w == response.winners_by_context
    IN  /\ response.total_comparisons = Len(retained)
        /\ DOMAIN w = {retained[i].context_size : i \in 1..Len(retained)}
        /\ \A i \in 1..Len(retained) :
              Cardinality({ctx \in DOMAIN w : i \in PositionsOf(retained, ctx)}) = 1
        /\ \A ctx \in DOMAIN w :
              LET positions == PositionsOf(retained, ctx)
              IN  /\ Len(w[ctx].all_backends) = Cardinality(positions)
                  /\ \A k \in 1..Cardinality(positions) :
                        w[ctx].all_backends[k] = retained[NthOf(positions, k)].backend
                  /\ \E i \in positions :
                        /\ w[ctx].winner = retained[i].backend
                        /\ w[ctx].score = retained[i].performance_score
                        /\ w[ctx].ttft_ms = retained[i].avg_ttft_ms

(* C15: GET /backend-comparison partitions the records now in the          *)
(* comparison log by context_size: one winners_by_context entry for each   *)
(* distinct context_size, every record in exactly one group, all_backends  *)
(* the backends of the group's records in insertion order, and the winner  *)
(* a record of the log, never one the 200-entry cap has evicted.           *)
C15_ReportPartitionsRetained ==
    response.op = "get_backend_comparison" =>
        (response.status = 200 /\ PartitionOfRetained)

\* What the code does keep of C15: whenever the handler returns a report,
\* the report is that partition, past the cap too (SpecCompareLong).
C15_ReturnedReportPartitions ==
    (response.op = "get_backend_comparison" /\ response.status = 200) =>
        PartitionOfRetained

\* a report returned after the cap has evicted the two oldest records
C15_ReportAfterEviction ==
    /\ response.op = "get_backend_comparison"
    /\ response.status = 200
    /\ Len(comparison_calls) = 202
    /\ Len(backend_comparisons) = 200
    /\ response.winners_by_context[Some(8)].score = Some(4)

=============================================================================
